---- MODULE Spec2Model ----
(***************************************************************************)
(* Barter-negotiation engine of the FoodCheQ backend.                      *)
(*                                                                         *)
(* The store is the BarterOffer and BarterItem tables.  Every route        *)
(* handler is an async function: it reads the offer (findUnique), checks   *)
(* the row it read, and only later issues its write (update / create /     *)
(* $transaction).  Other requests may run between the read and the write,  *)
(* so every handler is modelled by a pure check of the row it read (the    *)
(* error response of its early returns, or Ok), a step that reads and      *)
(* checks, and a step that issues the write and answers with success.      *)
(***************************************************************************)
EXTENDS Integers, Sequences, FiniteSets, Bags, TLC

VARIABLES
    offers,     \* BarterOffer table: sequence of rows, the id is the index
    items,      \* BarterItem table: items[id] is the sequence of item rows of offer id
    products,   \* Product table (read only for the engine)
    reqs,       \* requests in flight: the bag of writes that handlers are about to issue
    issued,     \* number of requests that passed their checks so far
    view        \* the response of the last read request (GET)

vars == <<offers, items, products, reqs, issued, view>>
store == <<offers, items>>

----------------------------------------------------------------------------
(* Bounds of the model *)

MaxOffers == 3
MaxInflight == 2
MaxItems == 1
MaxRequests == 5

NULL == "null"

OfferIds == 1..MaxOffers

----------------------------------------------------------------------------
(* Collaborators: vendor directory and product catalog *)

VendorIds == {"v1", "v2", "v3"}
AdminIds == {"a1"}

\* prisma.vendor.findUnique: v4 exists but is suspended, any other id is unknown
VendorDirectory ==
    [v \in VendorIds \cup {"v4"} |->
        IF v = "v4" THEN [status |-> "SUSPENDED", isActive |-> FALSE]
                    ELSE [status |-> "APPROVED", isActive |-> TRUE]]

InitProducts ==
    [p \in {"p1", "p2", "p3", "p4"} |->
        CASE p = "p1" -> [vendorId |-> "v1", priceUsdCents |-> 1000,
                          isAvailable |-> TRUE, isDeleted |-> FALSE]
          [] p = "p2" -> [vendorId |-> "v2", priceUsdCents |-> 1500,
                          isAvailable |-> TRUE, isDeleted |-> FALSE]
          \* p3 is marked unavailable, p4 is soft-deleted
          [] p = "p3" -> [vendorId |-> "v1", priceUsdCents |-> 700,
                          isAvailable |-> FALSE, isDeleted |-> FALSE]
          [] p = "p4" -> [vendorId |-> "v2", priceUsdCents |-> 900,
                          isAvailable |-> TRUE, isDeleted |-> TRUE]]

Statuses ==
    {"DRAFT", "SENT", "COUNTERED", "ACCEPTED", "REJECTED", "CANCELLED",
     "IN_PROGRESS", "COMPLETED", "DISPUTED"}

----------------------------------------------------------------------------
(* Request bodies *)

\* barterItemSchema: productId, quantity >= 1, isOffered
ItemInput(p, q, io) == [productId |-> p, quantity |-> q, isOffered |-> io]

\* faulty variant: the item list may be empty
ItemsValidAllowsEmpty(its) == \A i \in 1..Len(its) : its[i].quantity >= 1

\* z.array(barterItemSchema).min(1): an empty list is an invalid body
ItemsValid(its) == Len(its) >= 1 /\ \A i \in 1..Len(its) : its[i].quantity >= 1

RECURSIVE SeqsUpTo(_, _)
SeqsUpTo(S, n) ==
    IF n = 0 THEN {<<>>}
    ELSE LET shorter == SeqsUpTo(S, n - 1)
         IN  shorter \cup {Append(q, x) : q \in {t \in shorter : Len(t) = n - 1}, x \in S}

\* the item lists the requests of the model carry: an own product and a
\* product of the other vendor offered, an unavailable product, a soft-deleted
\* product, an unknown product, and the empty list
ItemInputs ==
    SeqsUpTo({ItemInput("p1", 1, TRUE), ItemInput("p2", 1, TRUE), ItemInput("p3", 1, TRUE),
              ItemInput("p4", 1, FALSE), ItemInput("p9", 1, TRUE)},
             MaxItems)

----------------------------------------------------------------------------
(* Rows *)

\* prisma.barterOffer.create with the column defaults of the migration
NewOffer(initiator, recipient, status, cents, direction, message, parent) ==
    [initiatorVendorId |-> initiator,
     recipientVendorId |-> recipient,
     status |-> status,
     cashGapCents |-> cents,
     cashGapDirection |-> direction,
     message |-> message,
     parentOfferId |-> parent,
     fulfilledByInitiator |-> FALSE,
     fulfilledByRecipient |-> FALSE,
     disputeReason |-> NULL,
     disputeResolvedBy |-> NULL,
     disputeResolution |-> NULL]

\* items.create / createMany: valueCents is the catalog price the handler read
ItemRows(its, productMap) ==
    [i \in 1..Len(its) |->
        [productId |-> its[i].productId,
         quantity |-> its[i].quantity,
         valueCents |-> productMap[its[i].productId].priceUsdCents,
         isOffered |-> its[i].isOffered]]

\* prisma.barterOffer.update({ where: { id }, data }): only the columns named
\* in data are written, the others keep the value stored at write time
ApplyUpdate(row, data) ==
    [f \in DOMAIN row |-> IF f \in DOMAIN data THEN data[f] ELSE row[f]]

Response(code, message) == [code |-> code, message |-> message]

\* what a check answers when no early return is taken
Ok == Response(0, "ok")

\* a handler step: an early return sends the error and writes nothing;
\* otherwise the handler awaits the write r it computed
Handle(check, r) ==
    /\ IF check # Ok
       THEN UNCHANGED vars
       ELSE /\ issued < MaxRequests
            /\ issued' = issued + 1
            /\ reqs' = reqs (+) SetToBag({r})
            /\ UNCHANGED <<offers, items, products, view>>

\* the server takes a request while fewer than MaxInflight are in flight
Accepting == BagCardinality(reqs) < MaxInflight

\* the handler of request r has answered
Done(r) == reqs' = reqs (-) SetToBag({r})

----------------------------------------------------------------------------
(* Helpers of the handlers *)

\* an optional body field that was left out reads as undefined and is stored as null
Opt(body, f) == IF f \in DOMAIN body THEN body[f] ELSE NULL

\* the write a handler is about to issue: what it computed from the row it read
Pending(op, vendorId, offerId, data, rows, message) ==
    [op |-> op, vendorId |-> vendorId, offerId |-> offerId,
     data |-> data, rows |-> rows, message |-> message, throws |-> FALSE]

\* number of offers that requests in flight are about to insert
Inserting ==
    BagCardinality([r \in {q \in BagToSet(reqs) : q.op \in {"create", "counter"}} |-> reqs[r]])

\* productMap.get(item.productId) is undefined for an id findMany did not return
AllResolved(its, productMap) ==
    \A i \in 1..Len(its) : its[i].productId \in DOMAIN productMap

\* POST /offers, body of the loop over the items: the first check that fails
ItemError(item, productMap, initiatorVendorId, recipientVendorId) ==
    IF item.productId \notin DOMAIN productMap THEN "Product not found"
    ELSE LET product == productMap[item.productId] IN
         IF product.isDeleted \/ ~product.isAvailable THEN "Product is not available"
         ELSE IF item.isOffered /\ product.vendorId # initiatorVendorId
              THEN "You can only offer your own products"
         ELSE IF ~item.isOffered /\ product.vendorId # recipientVendorId
              THEN "You can only request products from the recipient vendor"
         ELSE "ok"

\* the loop returns at the first item that fails
FirstItemError(its, productMap, initiatorVendorId, recipientVendorId) ==
    LET bad == {i \in 1..Len(its) :
                   ItemError(its[i], productMap, initiatorVendorId, recipientVendorId) # "ok"}
    IN  IF bad = {} THEN "ok"
        ELSE ItemError(its[CHOOSE i \in bad : \A j \in bad : i <= j],
                       productMap, initiatorVendorId, recipientVendorId)

\* cashGapDirection: cashGapCents > 0 ? cashGapDirection : null
StoredDirection(body) ==
    IF body.cashGapCents > 0 THEN Opt(body, "cashGapDirection") ELSE NULL

----------------------------------------------------------------------------
(* POST /offers - create a new offer *)

\* faulty variant: the recipient is not compared with the caller
CreateOfferCheckAllowsSelf(vendorId, body) ==
    IF ~ItemsValid(body.items) \/ body.cashGapCents < 0
    THEN Response(400, "Invalid input")
    ELSE IF \/ body.recipientVendorId \notin DOMAIN VendorDirectory
            \/ VendorDirectory[body.recipientVendorId].status # "APPROVED"
            \/ ~VendorDirectory[body.recipientVendorId].isActive
    THEN Response(400, "Recipient vendor not found or not active")
    ELSE Ok

CreateOfferCheck(vendorId, body) ==
    IF ~ItemsValid(body.items) \/ body.cashGapCents < 0
    THEN Response(400, "Invalid input")
    ELSE IF body.recipientVendorId = vendorId
    THEN Response(400, "Cannot create offer to yourself")
    ELSE IF \/ body.recipientVendorId \notin DOMAIN VendorDirectory
            \/ VendorDirectory[body.recipientVendorId].status # "APPROVED"
            \/ ~VendorDirectory[body.recipientVendorId].isActive
    THEN Response(400, "Recipient vendor not found or not active")
    ELSE LET err == FirstItemError(body.items, products, vendorId, body.recipientVendorId)
         IN  IF err # "ok" THEN Response(400, err) ELSE Ok

CreateOffer(vendorId, body) ==
    /\ Accepting
    /\ CreateOfferCheck(vendorId, body) = Ok => Len(offers) + Inserting < MaxOffers
    /\ Handle(CreateOfferCheck(vendorId, body),
              Pending("create", vendorId, 0,
                      NewOffer(vendorId, body.recipientVendorId, "DRAFT",
                               body.cashGapCents, StoredDirection(body),
                               Opt(body, "message"), 0),
                      IF AllResolved(body.items, products)
                      THEN ItemRows(body.items, products) ELSE <<>>,
                      "Offer created as draft"))

CreateOfferWrite(r) ==
    /\ r \in BagToSet(reqs) /\ r.op = "create"
    /\ offers' = Append(offers, r.data)
    /\ items' = Append(items, r.rows)
    /\ Done(r)
    /\ UNCHANGED <<products, issued, view>>

----------------------------------------------------------------------------
(* PATCH /offers/:id - update a draft offer *)

\* the data of the final update: only the fields the body supplies
UpdateData(body) ==
    [f \in DOMAIN body \cap {"cashGapCents", "cashGapDirection", "message"} |-> body[f]]

UpdateOfferCheck(vendorId, offerId, body) ==
    IF offerId \notin DOMAIN offers THEN Response(404, "Offer not found")
    ELSE IF offers[offerId].initiatorVendorId # vendorId
    THEN Response(403, "Only the initiator can update the offer")
    ELSE IF offers[offerId].status # "DRAFT"
    THEN Response(400, "Only draft offers can be updated")
    ELSE IF "items" \in DOMAIN body /\ ~ItemsValid(body.items)
    THEN Response(400, "Invalid input")
    \* productMap.get(item.productId)!.priceUsdCents throws before any write
    ELSE IF "items" \in DOMAIN body /\ ~AllResolved(body.items, products)
    THEN Response(500, "Internal server error")
    ELSE Ok

UpdateOffer(vendorId, offerId, body) ==
    /\ Accepting
    /\ Handle(UpdateOfferCheck(vendorId, offerId, body),
           IF "items" \in DOMAIN body /\ AllResolved(body.items, products)
           THEN Pending("update_items", vendorId, offerId, UpdateData(body),
                        ItemRows(body.items, products), "Offer updated")
           ELSE Pending("update_offer", vendorId, offerId, UpdateData(body),
                        <<>>, "Offer updated"))

\* prisma.$transaction([deleteMany, createMany]): the items are replaced
UpdateOfferItemsWrite(r) ==
    /\ r \in BagToSet(reqs) /\ r.op = "update_items"
    /\ items' = [items EXCEPT ![r.offerId] = r.rows]
    /\ reqs' = (reqs (-) SetToBag({r})) (+)
               SetToBag({[r EXCEPT !.op = "update_offer", !.rows = <<>>]})
    /\ UNCHANGED <<offers, products, issued, view>>

\* prisma.barterOffer.update({ where: { id: offerId }, data }) and the 200 response
UpdateWrite(r) ==
    /\ r \in BagToSet(reqs)
    /\ offers' = [offers EXCEPT ![r.offerId] = ApplyUpdate(@, r.data)]
    /\ Done(r)
    /\ UNCHANGED <<items, products, issued, view>>

UpdateOfferWrite(r) ==
    /\ r.op = "update_offer"
    /\ UpdateWrite(r)

----------------------------------------------------------------------------
(* POST /offers/:id/send *)

\* the early returns of the handler on the offer and the items it read
SendRowCheck(offer, rows, vendorId) ==
    IF offer.initiatorVendorId # vendorId
    THEN Response(403, "Only the initiator can send the offer")
    ELSE IF offer.status # "DRAFT"
    THEN Response(400, "Only draft offers can be sent")
    ELSE IF Len(rows) = 0
    THEN Response(400, "Cannot send an empty offer")
    ELSE Ok

SendOfferCheck(vendorId, offerId) ==
    IF offerId \notin DOMAIN offers THEN Response(404, "Offer not found")
    ELSE SendRowCheck(offers[offerId], items[offerId], vendorId)

\* faulty variant: sending hands the offer to another recipient
SendOfferReassigns(vendorId, offerId) ==
    /\ Accepting
    /\ Handle(SendOfferCheck(vendorId, offerId),
           Pending("send", vendorId, offerId,
                   [status |-> "SENT", recipientVendorId |-> "v3"], <<>>,
                   "Offer sent successfully"))

SendOffer(vendorId, offerId) ==
    /\ Accepting
    /\ Handle(SendOfferCheck(vendorId, offerId),
           Pending("send", vendorId, offerId, [status |-> "SENT"], <<>>,
                   "Offer sent successfully"))

SendOfferWrite(r) ==
    /\ r.op = "send"
    /\ UpdateWrite(r)

(* POST /offers/:id/accept *)

\* faulty variant: the caller is not compared with the recipient
AcceptOfferCheckNoAuth(vendorId, offerId) ==
    IF offerId \notin DOMAIN offers THEN Response(404, "Offer not found")
    ELSE IF offers[offerId].status \notin {"SENT", "COUNTERED"}
    THEN Response(400, "This offer cannot be accepted")
    ELSE Ok

AcceptOfferCheck(vendorId, offerId) ==
    IF offerId \notin DOMAIN offers THEN Response(404, "Offer not found")
    ELSE IF offers[offerId].recipientVendorId # vendorId
    THEN Response(403, "Only the recipient can accept the offer")
    ELSE IF offers[offerId].status \notin {"SENT", "COUNTERED"}
    THEN Response(400, "This offer cannot be accepted")
    ELSE Ok

AcceptOffer(vendorId, offerId) ==
    /\ Accepting
    /\ Handle(AcceptOfferCheck(vendorId, offerId),
           Pending("accept", vendorId, offerId, [status |-> "ACCEPTED"], <<>>,
                   "Offer accepted"))

AcceptOfferWrite(r) ==
    /\ r.op = "accept"
    /\ UpdateWrite(r)

(* POST /offers/:id/reject *)

RejectOfferCheck(vendorId, offerId) ==
    IF offerId \notin DOMAIN offers THEN Response(404, "Offer not found")
    ELSE IF offers[offerId].recipientVendorId # vendorId
    THEN Response(403, "Only the recipient can reject the offer")
    ELSE IF offers[offerId].status \notin {"SENT", "COUNTERED"}
    THEN Response(400, "This offer cannot be rejected")
    ELSE Ok

RejectOffer(vendorId, offerId) ==
    /\ Accepting
    /\ Handle(RejectOfferCheck(vendorId, offerId),
           Pending("reject", vendorId, offerId, [status |-> "REJECTED"], <<>>,
                   "Offer rejected"))

RejectOfferWrite(r) ==
    /\ r.op = "reject"
    /\ UpdateWrite(r)

(* POST /offers/:id/cancel *)

CancelOfferCheck(vendorId, offerId) ==
    IF offerId \notin DOMAIN offers THEN Response(404, "Offer not found")
    ELSE IF offers[offerId].initiatorVendorId # vendorId
    THEN Response(403, "Only the initiator can cancel the offer")
    ELSE IF offers[offerId].status \notin {"DRAFT", "SENT"}
    THEN Response(400, "This offer cannot be cancelled")
    ELSE Ok

CancelOffer(vendorId, offerId) ==
    /\ Accepting
    /\ Handle(CancelOfferCheck(vendorId, offerId),
           Pending("cancel", vendorId, offerId, [status |-> "CANCELLED"], <<>>,
                   "Offer cancelled"))

CancelOfferWrite(r) ==
    /\ r.op = "cancel"
    /\ UpdateWrite(r)

----------------------------------------------------------------------------
(* POST /offers/:id/counter - create a counter-offer *)

CounterOfferCheck(vendorId, offerId, body) ==
    IF offerId \notin DOMAIN offers THEN Response(404, "Offer not found")
    ELSE IF offers[offerId].recipientVendorId # vendorId
    THEN Response(403, "Only the recipient can counter the offer")
    ELSE IF offers[offerId].status \notin {"SENT", "COUNTERED"}
    THEN Response(400, "This offer cannot be countered")
    ELSE IF ~ItemsValid(body.items) \/ body.cashGapCents < 0
    THEN Response(400, "Invalid input")
    ELSE Ok

\* faulty variant: the counter-offer keeps the roles of its predecessor
CounterOfferKeepsRoles(vendorId, offerId, body) ==
    /\ Accepting
    /\ CounterOfferCheck(vendorId, offerId, body) = Ok => Len(offers) + Inserting < MaxOffers
    /\ Handle(CounterOfferCheck(vendorId, offerId, body),
              [Pending("counter", vendorId, offerId,
                       NewOffer(offers[offerId].initiatorVendorId, vendorId, "SENT",
                                body.cashGapCents, StoredDirection(body),
                                Opt(body, "message"), offerId),
                       IF AllResolved(body.items, products)
                       THEN ItemRows(body.items, products) ELSE <<>>,
                       "Counter-offer sent")
               EXCEPT !.throws = ~AllResolved(body.items, products)])

CounterOffer(vendorId, offerId, body) ==
    /\ Accepting
    /\ CounterOfferCheck(vendorId, offerId, body) = Ok => Len(offers) + Inserting < MaxOffers
    /\ Handle(CounterOfferCheck(vendorId, offerId, body),
              [Pending("counter", vendorId, offerId,
                       \* roles are swapped: the recipient becomes the initiator
                       NewOffer(vendorId, offers[offerId].initiatorVendorId, "SENT",
                                body.cashGapCents, StoredDirection(body),
                                Opt(body, "message"), offerId),
                       IF AllResolved(body.items, products)
                       THEN ItemRows(body.items, products) ELSE <<>>,
                       "Counter-offer sent")
               \* productMap.get(...)!.priceUsdCents throws inside the transaction
               EXCEPT !.throws = ~AllResolved(body.items, products)])

\* faulty variant: the transaction also copies the message of the
\* counter-offer onto the original
CounterOfferWriteTouchesOriginal(r) ==
    /\ r \in BagToSet(reqs) /\ r.op = "counter"
    /\ Done(r)
    /\ IF r.throws
       THEN UNCHANGED <<offers, items, products, issued, view>>
       ELSE /\ offers' = Append([offers EXCEPT ![r.offerId] =
                                    ApplyUpdate(@, [status |-> "COUNTERED",
                                                    message |-> "countered"])],
                                r.data)
            /\ items' = Append(items, r.rows)
            /\ UNCHANGED <<products, issued, view>>

\* faulty variant: the two writes are not in one transaction, so the update
\* of the original stays when the creation of the counter-offer throws
CounterOfferWritePartial(r) ==
    /\ r \in BagToSet(reqs) /\ r.op = "counter"
    /\ Done(r)
    /\ IF r.throws
       THEN /\ offers' = [offers EXCEPT ![r.offerId] =
                             ApplyUpdate(@, [status |-> "COUNTERED"])]
            /\ UNCHANGED <<items, products, issued, view>>
       ELSE /\ offers' = Append([offers EXCEPT ![r.offerId] =
                                    ApplyUpdate(@, [status |-> "COUNTERED"])],
                                r.data)
            /\ items' = Append(items, r.rows)
            /\ UNCHANGED <<products, issued, view>>

\* prisma.$transaction(async tx => { update original; create counter-offer }):
\* both writes commit together, or the callback throws, both are rolled back
\* and the handler answers 500
CounterOfferWrite(r) ==
    /\ r \in BagToSet(reqs) /\ r.op = "counter"
    /\ Done(r)
    /\ IF r.throws
       THEN UNCHANGED <<offers, items, products, issued, view>>
       ELSE /\ offers' = Append([offers EXCEPT ![r.offerId] =
                                    ApplyUpdate(@, [status |-> "COUNTERED"])],
                                r.data)
            /\ items' = Append(items, r.rows)
            /\ UNCHANGED <<products, issued, view>>

----------------------------------------------------------------------------
(* POST /offers/:id/fulfill - mark my side as fulfilled *)

\* faulty variant: completion is only detected when the initiator acts last
FulfillDataInitiatorOnly(offer, isInitiator, isRecipient) ==
    LET flag == IF isInitiator THEN [fulfilledByInitiator |-> TRUE]
                               ELSE [fulfilledByRecipient |-> TRUE]
    IN  IF isInitiator /\ offer.fulfilledByRecipient THEN flag @@ [status |-> "COMPLETED"]
        ELSE IF offer.status = "ACCEPTED" THEN flag @@ [status |-> "IN_PROGRESS"]
        ELSE flag

\* faulty variant: an offer already IN_PROGRESS is taken to have the other
\* party's flag set
FulfillDataInProgressCompletes(offer, isInitiator, isRecipient) ==
    LET flag == IF isInitiator THEN [fulfilledByInitiator |-> TRUE]
                               ELSE [fulfilledByRecipient |-> TRUE]
    IN  IF offer.status = "IN_PROGRESS" THEN flag @@ [status |-> "COMPLETED"]
        ELSE flag @@ [status |-> "IN_PROGRESS"]

\* updateData as the handler builds it from the row it read
FulfillData(offer, isInitiator, isRecipient) ==
    LET flag == IF isInitiator THEN [fulfilledByInitiator |-> TRUE]
                               ELSE [fulfilledByRecipient |-> TRUE]
        willBeComplete == \/ (isInitiator /\ offer.fulfilledByRecipient)
                          \/ (isRecipient /\ offer.fulfilledByInitiator)
    IN  IF willBeComplete THEN flag @@ [status |-> "COMPLETED"]
        ELSE IF offer.status = "ACCEPTED" THEN flag @@ [status |-> "IN_PROGRESS"]
        ELSE flag

\* faulty variant: the guard on the caller's own flag is missing
FulfillRowCheckNoGuard(offer, vendorId) ==
    IF offer.initiatorVendorId # vendorId /\ offer.recipientVendorId # vendorId
    THEN Response(403, "You are not part of this offer")
    ELSE IF offer.status # "ACCEPTED" /\ offer.status # "IN_PROGRESS"
    THEN Response(400, "Only accepted or in-progress offers can be fulfilled")
    ELSE Ok

\* the early returns of the handler on the row it read
FulfillRowCheck(offer, vendorId) ==
    LET isInitiator == offer.initiatorVendorId = vendorId
        isRecipient == offer.recipientVendorId = vendorId
    IN
    IF ~isInitiator /\ ~isRecipient
    THEN Response(403, "You are not part of this offer")
    ELSE IF offer.status # "ACCEPTED" /\ offer.status # "IN_PROGRESS"
    THEN Response(400, "Only accepted or in-progress offers can be fulfilled")
    ELSE IF \/ (isInitiator /\ offer.fulfilledByInitiator)
            \/ (~isInitiator /\ offer.fulfilledByRecipient)
    THEN Response(400, "You have already marked your side as fulfilled")
    ELSE Ok

FulfillOfferCheck(vendorId, offerId) ==
    IF offerId \notin DOMAIN offers THEN Response(404, "Offer not found")
    ELSE FulfillRowCheck(offers[offerId], vendorId)

\* the row a fulfill request leaves when nothing runs between its read and its
\* write: a rejected request leaves the row as it is
FulfillAlone(offer, vendorId) ==
    IF FulfillRowCheck(offer, vendorId) # Ok THEN offer
    ELSE ApplyUpdate(offer, FulfillData(offer, offer.initiatorVendorId = vendorId,
                                        offer.recipientVendorId = vendorId))

FulfillOffer(vendorId, offerId) ==
    /\ Accepting
    /\ Handle(FulfillOfferCheck(vendorId, offerId),
           LET offer == offers[offerId]
               data == FulfillData(offer, offer.initiatorVendorId = vendorId,
                                   offer.recipientVendorId = vendorId)
           IN  Pending("fulfill", vendorId, offerId, data, <<>>,
                       IF "status" \in DOMAIN data /\ data.status = "COMPLETED"
                       THEN "Barter completed" ELSE "Your side marked as fulfilled"))

FulfillOfferWrite(r) ==
    /\ r.op = "fulfill"
    /\ UpdateWrite(r)

----------------------------------------------------------------------------
(* POST /offers/:id/dispute - raise a dispute *)

DisputeOfferCheck(vendorId, offerId, reason) ==
    IF Len(reason) < 1 THEN Response(400, "Invalid input")
    ELSE IF offerId \notin DOMAIN offers THEN Response(404, "Offer not found")
    ELSE IF /\ offers[offerId].initiatorVendorId # vendorId
            /\ offers[offerId].recipientVendorId # vendorId
    THEN Response(403, "You are not part of this offer")
    ELSE IF offers[offerId].status \notin {"ACCEPTED", "IN_PROGRESS"}
    THEN Response(400, "Only accepted or in-progress offers can be disputed")
    ELSE Ok

\* faulty variant: raising a dispute clears the fulfilment flags
DisputeOfferClearsFlags(vendorId, offerId, reason) ==
    /\ Accepting
    /\ Handle(DisputeOfferCheck(vendorId, offerId, reason),
           Pending("dispute", vendorId, offerId,
                   [status |-> "DISPUTED", disputeReason |-> reason,
                    fulfilledByInitiator |-> FALSE, fulfilledByRecipient |-> FALSE],
                   <<>>, "Dispute raised"))

DisputeOffer(vendorId, offerId, reason) ==
    /\ Accepting
    /\ Handle(DisputeOfferCheck(vendorId, offerId, reason),
           Pending("dispute", vendorId, offerId,
                   [status |-> "DISPUTED", disputeReason |-> reason], <<>>,
                   "Dispute raised"))

DisputeOfferWrite(r) ==
    /\ r.op = "dispute"
    /\ UpdateWrite(r)

----------------------------------------------------------------------------
(* Admin routes *)

(* PATCH /:id/resolve - resolve a dispute *)

ResolveDisputeCheck(offerId, resolution, newStatus) ==
    IF Len(resolution) < 1 \/ newStatus \notin {"CANCELLED", "COMPLETED"}
    THEN Response(400, "Invalid input")
    ELSE IF offerId \notin DOMAIN offers THEN Response(404, "Offer not found")
    ELSE IF offers[offerId].status # "DISPUTED"
    THEN Response(400, "Only disputed offers can be resolved")
    ELSE Ok

ResolveDispute(adminId, offerId, resolution, newStatus) ==
    /\ Accepting
    /\ Handle(ResolveDisputeCheck(offerId, resolution, newStatus),
           Pending("resolve", adminId, offerId,
                   [status |-> newStatus,
                    disputeResolvedBy |-> adminId,
                    disputeResolution |-> resolution], <<>>,
                   "Dispute resolved"))

ResolveDisputeWrite(r) ==
    /\ r.op = "resolve"
    /\ UpdateWrite(r)

(* PATCH /:id/status - force status change (admin override) *)

AdminUpdateStatusCheck(offerId, status) ==
    IF status \notin Statuses THEN Response(400, "Invalid input")
    ELSE IF offerId \notin DOMAIN offers THEN Response(404, "Offer not found")
    ELSE Ok

AdminUpdateStatus(adminId, offerId, status) ==
    /\ Accepting
    /\ Handle(AdminUpdateStatusCheck(offerId, status),
           Pending("status", adminId, offerId, [status |-> status], <<>>,
                   "Offer status updated"))

AdminUpdateStatusWrite(r) ==
    /\ r.op = "status"
    /\ UpdateWrite(r)

----------------------------------------------------------------------------
(* PATCH /api/vendor/products/:id - a vendor updates a product of its catalog *)

\* updateProductSchema: priceUsdCents is an integer >= 1 when it is supplied
UpdateProductCheck(vendorId, productId, body) ==
    IF "priceUsdCents" \in DOMAIN body /\ body.priceUsdCents < 1
    THEN Response(400, "Invalid input")
    \* findFirst({ where: { id, vendorId, isDeleted: false } })
    ELSE IF \/ productId \notin DOMAIN products
            \/ products[productId].vendorId # vendorId
            \/ products[productId].isDeleted
    THEN Response(404, "Product not found")
    ELSE Ok

UpdateProduct(vendorId, productId, body) ==
    /\ Accepting
    /\ Handle(UpdateProductCheck(vendorId, productId, body),
              [op |-> "product", vendorId |-> vendorId, offerId |-> 0,
               productId |-> productId,
               data |-> [f \in DOMAIN body \cap {"priceUsdCents", "isAvailable"} |-> body[f]],
               rows |-> <<>>, message |-> "Product updated successfully",
               throws |-> FALSE])

\* prisma.product.update({ where: { id: productId }, data })
UpdateProductWrite(r) ==
    /\ r \in BagToSet(reqs) /\ r.op = "product"
    /\ products' = [products EXCEPT ![r.productId] = ApplyUpdate(@, r.data)]
    /\ Done(r)
    /\ UNCHANGED <<offers, items, issued, view>>

----------------------------------------------------------------------------
(* Read operations: the offer projection, the lists and the statistics *)

\* no read was answered yet
NoView == [op |-> "none", code |-> 0, body |-> [message |-> "none"]]

\* res.status(code).json(body) of a read handler
Reply(op, code, body) == [op |-> op, code |-> code, body |-> body]

\* items: { include: { product: { select: { id, ..., priceUsdCents } } } }:
\* the product joined to an item is the catalog row as it is at the read
WithProduct(rows) ==
    [i \in 1..Len(rows) |->
        [productId |-> rows[i].productId,
         quantity |-> rows[i].quantity,
         valueCents |-> rows[i].valueCents,
         isOffered |-> rows[i].isOffered,
         product |-> [id |-> rows[i].productId,
                      priceUsdCents |-> products[rows[i].productId].priceUsdCents]]]

\* getOfferWithDetails: the row with its items, its parent and its counter-offers
GetOfferWithDetails(offerId) ==
    [id |-> offerId,
     row |-> offers[offerId],
     items |-> WithProduct(items[offerId]),
     counterOffers |-> {[id |-> c, status |-> offers[c].status] :
                           c \in {d \in DOMAIN offers : offers[d].parentOfferId = offerId}}]

\* items.reduce((sum, i) => sum + i.valueCents * i.quantity, 0)
RECURSIVE ReduceTotal(_, _)
ReduceTotal(rows, sum) ==
    IF rows = <<>> THEN sum
    ELSE ReduceTotal(Tail(rows), sum + Head(rows).valueCents * Head(rows).quantity)

\* items.filter((i) => i.isOffered)  /  items.filter((i) => !i.isOffered)
OfferedItems(rows) == SelectSeq(rows, LAMBDA i : i.isOffered)
RequestedItems(rows) == SelectSeq(rows, LAMBDA i : ~i.isOffered)

\* the entry of an item in the projection
ItemView(rows) ==
    [i \in 1..Len(rows) |->
        [product |-> rows[i].product,
         quantity |-> rows[i].quantity,
         valueCents |-> rows[i].valueCents,
         totalCents |-> rows[i].valueCents * rows[i].quantity]]

\* faulty variant: the cash gap is added to the offered total
TransformOfferAddsCashGap(offer, currentVendorId) ==
    [id |-> offer.id,
     status |-> offer.row.status,
     isInitiator |-> offer.row.initiatorVendorId = currentVendorId,
     offeredItems |-> ItemView(OfferedItems(offer.items)),
     requestedItems |-> ItemView(RequestedItems(offer.items)),
     offeredTotalCents |-> ReduceTotal(OfferedItems(offer.items), 0) + offer.row.cashGapCents,
     requestedTotalCents |-> ReduceTotal(RequestedItems(offer.items), 0),
     cashGapCents |-> offer.row.cashGapCents,
     cashGapDirection |-> offer.row.cashGapDirection,
     message |-> offer.row.message,
     fulfilledByInitiator |-> offer.row.fulfilledByInitiator,
     fulfilledByRecipient |-> offer.row.fulfilledByRecipient,
     disputeReason |-> offer.row.disputeReason,
     disputeResolution |-> offer.row.disputeResolution,
     parentOfferId |-> offer.row.parentOfferId,
     counterOffers |-> offer.counterOffers]

\* transformOffer(offer, currentVendorId): the offer projection
TransformOffer(offer, currentVendorId) ==
    [id |-> offer.id,
     status |-> offer.row.status,
     isInitiator |-> offer.row.initiatorVendorId = currentVendorId,
     offeredItems |-> ItemView(OfferedItems(offer.items)),
     requestedItems |-> ItemView(RequestedItems(offer.items)),
     offeredTotalCents |-> ReduceTotal(OfferedItems(offer.items), 0),
     requestedTotalCents |-> ReduceTotal(RequestedItems(offer.items), 0),
     cashGapCents |-> offer.row.cashGapCents,
     cashGapDirection |-> offer.row.cashGapDirection,
     message |-> offer.row.message,
     fulfilledByInitiator |-> offer.row.fulfilledByInitiator,
     fulfilledByRecipient |-> offer.row.fulfilledByRecipient,
     disputeReason |-> offer.row.disputeReason,
     disputeResolution |-> offer.row.disputeResolution,
     parentOfferId |-> offer.row.parentOfferId,
     counterOffers |-> offer.counterOffers]

\* the frame of every read handler: it issues findMany / findUnique / count only
ReadOnly == UNCHANGED <<offers, items, products, reqs, issued>>

(* GET /api/vendor/barter/offers - the offers of the caller *)

\* the where clause: status when it is given, and the side the type selects
ListWhere(offer, vendorId, status, type) ==
    /\ status # NULL => offer.status = status
    /\ CASE type = "sent" -> offer.initiatorVendorId = vendorId
         [] type = "received" -> offer.recipientVendorId = vendorId
         [] OTHER -> offer.initiatorVendorId = vendorId \/ offer.recipientVendorId = vendorId

\* the list is keyed by offer id here; its order (updatedAt) is not modelled
GetOffersResponse(vendorId, status, type) ==
    Reply("GetOffers", 200,
          [offers |->
              [o \in {d \in DOMAIN offers : ListWhere(offers[d], vendorId, status, type)} |->
                  [id |-> o,
                   status |-> offers[o].status,
                   isInitiator |-> offers[o].initiatorVendorId = vendorId,
                   otherVendor |-> IF offers[o].initiatorVendorId = vendorId
                                   THEN offers[o].recipientVendorId
                                   ELSE offers[o].initiatorVendorId,
                   itemCount |-> Len(items[o]),
                   offeredCount |-> Len(OfferedItems(items[o])),
                   requestedCount |-> Len(RequestedItems(items[o])),
                   cashGapCents |-> offers[o].cashGapCents,
                   cashGapDirection |-> offers[o].cashGapDirection]]])

GetOffers(vendorId, status, type) ==
    /\ view' = GetOffersResponse(vendorId, status, type)
    /\ ReadOnly

(* GET /api/vendor/barter/offers/:id - offer details *)

GetOfferResponse(vendorId, offerId) ==
    IF offerId \notin DOMAIN offers
    THEN Reply("GetOffer", 404, [message |-> "Offer not found"])
    ELSE IF /\ offers[offerId].initiatorVendorId # vendorId
            /\ offers[offerId].recipientVendorId # vendorId
    THEN Reply("GetOffer", 403, [message |-> "You are not part of this offer"])
    ELSE Reply("GetOffer", 200,
               [viewer |-> vendorId,
                offer |-> TransformOffer(GetOfferWithDetails(offerId), vendorId)])

\* faulty variant: the read marks the offer it returns
GetOfferMarksSeen(vendorId, offerId) ==
    /\ view' = GetOfferResponse(vendorId, offerId)
    /\ offers' = [o \in DOMAIN offers |->
                     IF o = offerId /\ view'.code = 200
                     THEN [offers[o] EXCEPT !.message = "seen"] ELSE offers[o]]
    /\ UNCHANGED <<items, products, reqs, issued>>

GetOffer(vendorId, offerId) ==
    /\ view' = GetOfferResponse(vendorId, offerId)
    /\ ReadOnly

(* GET /api/admin/barter - all offers, with the totals of their bundles *)

AdminWhere(offer, status, vendorId) ==
    /\ status # NULL => offer.status = status
    /\ vendorId # NULL =>
          offer.initiatorVendorId = vendorId \/ offer.recipientVendorId = vendorId

AdminGetOffersResponse(status, vendorId) ==
    Reply("AdminGetOffers", 200,
          [offers |->
              [o \in {d \in DOMAIN offers : AdminWhere(offers[d], status, vendorId)} |->
                  [id |-> o,
                   status |-> offers[o].status,
                   initiatorVendor |-> offers[o].initiatorVendorId,
                   recipientVendor |-> offers[o].recipientVendorId,
                   offeredCount |-> Len(OfferedItems(items[o])),
                   requestedCount |-> Len(RequestedItems(items[o])),
                   offeredTotalCents |-> ReduceTotal(OfferedItems(items[o]), 0),
                   requestedTotalCents |-> ReduceTotal(RequestedItems(items[o]), 0),
                   cashGapCents |-> offers[o].cashGapCents,
                   cashGapDirection |-> offers[o].cashGapDirection,
                   fulfilledByInitiator |-> offers[o].fulfilledByInitiator,
                   fulfilledByRecipient |-> offers[o].fulfilledByRecipient,
                   disputeReason |-> offers[o].disputeReason]]])

AdminGetOffers(adminId, status, vendorId) ==
    /\ view' = AdminGetOffersResponse(status, vendorId)
    /\ ReadOnly

(* GET /api/admin/barter/stats *)

\* prisma.barterOffer.count({ where: { status } })
CountStatus(status) == Cardinality({o \in DOMAIN offers : offers[o].status = status})

\* COUNTERED is not among the eight counts, so it is not in the total either
AdminGetStatsResponse ==
    Reply("AdminGetStats", 200,
          [draft |-> CountStatus("DRAFT"),
           sent |-> CountStatus("SENT"),
           accepted |-> CountStatus("ACCEPTED"),
           inProgress |-> CountStatus("IN_PROGRESS"),
           completed |-> CountStatus("COMPLETED"),
           disputed |-> CountStatus("DISPUTED"),
           rejected |-> CountStatus("REJECTED"),
           cancelled |-> CountStatus("CANCELLED"),
           total |-> CountStatus("DRAFT") + CountStatus("SENT") + CountStatus("ACCEPTED")
                     + CountStatus("IN_PROGRESS") + CountStatus("COMPLETED")
                     + CountStatus("DISPUTED") + CountStatus("REJECTED")
                     + CountStatus("CANCELLED")])

AdminGetStats(adminId) ==
    /\ view' = AdminGetStatsResponse
    /\ ReadOnly

(* GET /api/admin/barter/:id - offer details for the admin *)

AdminGetOfferResponse(offerId) ==
    IF offerId \notin DOMAIN offers
    THEN Reply("AdminGetOffer", 404, [message |-> "Offer not found"])
    ELSE LET offer == GetOfferWithDetails(offerId) IN
         Reply("AdminGetOffer", 200,
               [offer |->
                   [id |-> offer.id,
                    status |-> offer.row.status,
                    initiatorVendor |-> offer.row.initiatorVendorId,
                    recipientVendor |-> offer.row.recipientVendorId,
                    offeredItems |-> ItemView(OfferedItems(offer.items)),
                    requestedItems |-> ItemView(RequestedItems(offer.items)),
                    cashGapCents |-> offer.row.cashGapCents,
                    cashGapDirection |-> offer.row.cashGapDirection,
                    message |-> offer.row.message,
                    fulfilledByInitiator |-> offer.row.fulfilledByInitiator,
                    fulfilledByRecipient |-> offer.row.fulfilledByRecipient,
                    disputeReason |-> offer.row.disputeReason,
                    disputeResolvedBy |-> offer.row.disputeResolvedBy,
                    disputeResolution |-> offer.row.disputeResolution,
                    parentOfferId |-> offer.row.parentOfferId,
                    counterOffers |-> offer.counterOffers]])

AdminGetOffer(adminId, offerId) ==
    /\ view' = AdminGetOfferResponse(offerId)
    /\ ReadOnly

----------------------------------------------------------------------------
(* Requests of the model *)

\* the vendor that creates offers; v2 answers them, v3 is party to none
Creators == {"v1"}
Reasons == {"", "goods not received"}
Resolutions == {"", "refund agreed"}

\* cashGapCents carries the schema default 0 when the request leaves it out
CreateBodies ==
    {[recipientVendorId |-> r, items |-> its, cashGapCents |-> 0] :
        r \in {"v1", "v2", "v4"}, its \in ItemInputs}
    \cup {[recipientVendorId |-> "v2", items |-> <<ItemInput("p1", 1, TRUE)>>,
           cashGapCents |-> 500, cashGapDirection |-> "INITIATOR_PAYS"]}

UpdateBodies ==
    {[items |-> its] : its \in ItemInputs} \cup {[message |-> "m"], [cashGapCents |-> 500]}

CounterBodies == {[items |-> its, cashGapCents |-> 0] : its \in ItemInputs}

----------------------------------------------------------------------------
(* Specification *)

Init ==
    /\ offers = <<>>
    /\ items = <<>>
    /\ products = InitProducts
    /\ reqs = EmptyBag
    /\ issued = 0
    /\ view = NoView

Next ==
    \/ \E v \in Creators, body \in CreateBodies : CreateOffer(v, body)
    \/ \E v \in VendorIds, o \in OfferIds, body \in UpdateBodies : UpdateOffer(v, o, body)
    \/ \E v \in VendorIds, o \in OfferIds : SendOffer(v, o)
    \/ \E v \in VendorIds, o \in OfferIds : AcceptOffer(v, o)
    \/ \E v \in VendorIds, o \in OfferIds : RejectOffer(v, o)
    \/ \E v \in VendorIds, o \in OfferIds, body \in CounterBodies : CounterOffer(v, o, body)
    \/ \E v \in VendorIds, o \in OfferIds : CancelOffer(v, o)
    \/ \E v \in VendorIds, o \in OfferIds : FulfillOffer(v, o)
    \/ \E v \in VendorIds, o \in OfferIds, reason \in Reasons : DisputeOffer(v, o, reason)
    \/ \E a \in AdminIds, o \in OfferIds, resolution \in Resolutions,
          st \in {"COMPLETED", "CANCELLED", "SENT"} : ResolveDispute(a, o, resolution, st)
    \/ \E a \in AdminIds, o \in OfferIds, st \in Statuses : AdminUpdateStatus(a, o, st)
    \/ \E r \in BagToSet(reqs) : CreateOfferWrite(r)
    \/ \E r \in BagToSet(reqs) : UpdateOfferItemsWrite(r)
    \/ \E r \in BagToSet(reqs) : UpdateOfferWrite(r)
    \/ \E r \in BagToSet(reqs) : SendOfferWrite(r)
    \/ \E r \in BagToSet(reqs) : AcceptOfferWrite(r)
    \/ \E r \in BagToSet(reqs) : RejectOfferWrite(r)
    \/ \E r \in BagToSet(reqs) : CounterOfferWrite(r)
    \/ \E r \in BagToSet(reqs) : CancelOfferWrite(r)
    \/ \E r \in BagToSet(reqs) : FulfillOfferWrite(r)
    \/ \E r \in BagToSet(reqs) : DisputeOfferWrite(r)
    \/ \E r \in BagToSet(reqs) : ResolveDisputeWrite(r)
    \/ \E r \in BagToSet(reqs) : AdminUpdateStatusWrite(r)

Spec == Init /\ [][Next]_vars

----------------------------------------------------------------------------
(* The catalog and the reads: offers of two bundles, price changes, reads *)

\* the bundle of scenario A with two units offered: p1 (1000) twice against
\* p2 (1500), a cash gap of 500 paid by the recipient
BundleItems == <<ItemInput("p1", 2, TRUE), ItemInput("p2", 1, FALSE)>>

CatalogCreateBodies ==
    {[recipientVendorId |-> "v2", items |-> BundleItems,
      cashGapCents |-> 500, cashGapDirection |-> "RECIPIENT_PAYS"]}

\* the initiator replaces the bundle and the cash-gap terms in one request
CatalogUpdateBodies ==
    {[items |-> <<ItemInput("p1", 1, TRUE)>>,
      cashGapCents |-> 200, cashGapDirection |-> "INITIATOR_PAYS"]}

\* v2 counters with its own product offered against p1
CatalogCounterBodies ==
    {[items |-> <<ItemInput("p2", 2, TRUE), ItemInput("p1", 1, FALSE)>>, cashGapCents |-> 0]}

\* a new price, and a price the schema rejects
ProductBodies == {[priceUsdCents |-> 1200], [priceUsdCents |-> 0]}

CatalogNext ==
    \/ \E v \in Creators, body \in CatalogCreateBodies : CreateOffer(v, body)
    \/ \E v \in VendorIds, o \in OfferIds, body \in CatalogUpdateBodies : UpdateOffer(v, o, body)
    \/ \E v \in VendorIds, o \in OfferIds : SendOffer(v, o)
    \/ \E v \in VendorIds, o \in OfferIds : AcceptOffer(v, o)
    \/ \E v \in VendorIds, o \in OfferIds, body \in CatalogCounterBodies : CounterOffer(v, o, body)
    \/ \E v \in VendorIds, p \in {"p1", "p2"}, body \in ProductBodies : UpdateProduct(v, p, body)
    \/ \E r \in BagToSet(reqs) : CreateOfferWrite(r)
    \/ \E r \in BagToSet(reqs) : UpdateOfferItemsWrite(r)
    \/ \E r \in BagToSet(reqs) : UpdateOfferWrite(r)
    \/ \E r \in BagToSet(reqs) : SendOfferWrite(r)
    \/ \E r \in BagToSet(reqs) : AcceptOfferWrite(r)
    \/ \E r \in BagToSet(reqs) : CounterOfferWrite(r)
    \/ \E r \in BagToSet(reqs) : UpdateProductWrite(r)
    \/ \E v \in VendorIds, st \in {NULL, "SENT"}, type \in {NULL, "sent", "received"} :
          GetOffers(v, st, type)
    \/ \E v \in VendorIds, o \in OfferIds : GetOffer(v, o)
    \/ \E a \in AdminIds, st \in {NULL, "SENT"}, v \in {NULL, "v2"} : AdminGetOffers(a, st, v)
    \/ \E a \in AdminIds : AdminGetStats(a)
    \/ \E a \in AdminIds, o \in OfferIds : AdminGetOffer(a, o)

CatalogSpec == Init /\ [][CatalogNext]_vars

----------------------------------------------------------------------------
(* The transition table of the specification (section 4.1, 4.2) *)

\* the pairs <<from, to>> the table allows for the status write of an action
TableMoves(action) ==
    CASE action = "send"    -> {<<"DRAFT", "SENT">>}
      [] action = "cancel"  -> {<<"DRAFT", "CANCELLED">>, <<"SENT", "CANCELLED">>}
      [] action = "accept"  -> {<<"SENT", "ACCEPTED">>, <<"COUNTERED", "ACCEPTED">>}
      [] action = "reject"  -> {<<"SENT", "REJECTED">>, <<"COUNTERED", "REJECTED">>}
      [] action = "counter" -> {<<"SENT", "COUNTERED">>, <<"COUNTERED", "COUNTERED">>}
      [] action = "fulfill" -> {<<"ACCEPTED", "IN_PROGRESS">>, <<"ACCEPTED", "COMPLETED">>,
                                <<"IN_PROGRESS", "IN_PROGRESS">>, <<"IN_PROGRESS", "COMPLETED">>}
      [] action = "dispute" -> {<<"ACCEPTED", "DISPUTED">>, <<"IN_PROGRESS", "DISPUTED">>}
      [] action = "resolve" -> {<<"DISPUTED", "COMPLETED">>, <<"DISPUTED", "CANCELLED">>}
      [] OTHER -> {}

\* the statuses from which the table lets an actor in the given role take an action
TableFrom(action, role) ==
    CASE action \in {"update", "send"} /\ role = "initiator" -> {"DRAFT"}
      [] action = "cancel" /\ role = "initiator" -> {"DRAFT", "SENT"}
      [] action \in {"accept", "reject", "counter"} /\ role = "recipient" -> {"SENT", "COUNTERED"}
      [] action \in {"fulfill", "dispute"} /\ role \in {"initiator", "recipient"} ->
            {"ACCEPTED", "IN_PROGRESS"}
      [] action = "resolve" /\ role = "arbiter" -> {"DISPUTED"}
      [] OTHER -> {}

RoleOf(offer, vendorId) ==
    IF offer.initiatorVendorId = vendorId THEN "initiator"
    ELSE IF offer.recipientVendorId = vendorId THEN "recipient"
    ELSE "other"

\* the fulfilled flag of the party a vendor is in an offer
OwnFlag(offer, vendorId) ==
    IF offer.initiatorVendorId = vendorId THEN offer.fulfilledByInitiator
                                          ELSE offer.fulfilledByRecipient

InFlight == BagToSet(reqs)

----------------------------------------------------------------------------
(* Claims *)

\* C1: when the fulfill requests of the two parties of an offer run
\* concurrently, both succeed, both flags end true and the stored status is
\* COMPLETED: a fulfill write that leaves both flags true leaves COMPLETED.
C1_ConcurrentFulfillCompletes ==
    [][\A r \in InFlight :
          (/\ FulfillOfferWrite(r)
           /\ offers'[r.offerId].fulfilledByInitiator
           /\ offers'[r.offerId].fulfilledByRecipient)
          => offers'[r.offerId].status = "COMPLETED"]_vars

\* C2: of two concurrent accept requests of the recipient on one offer exactly
\* one succeeds and the other gets the state error: when an accept succeeds, no
\* other accept of that offer has passed the state check and awaits its write.
C2_OneAcceptSucceeds ==
    [][\A r \in InFlight :
          AcceptOfferWrite(r)
          => \A q \in BagToSet(reqs') : ~(q.op = "accept" /\ q.offerId = r.offerId)]_vars

\* C3: of two concurrent fulfill requests of the same party exactly one sets
\* the party's flag: every fulfill that succeeds finds its party's flag false
\* in the stored row it writes.
C3_OneFulfillPerParty ==
    [][\A r \in InFlight :
          FulfillOfferWrite(r) => ~OwnFlag(offers[r.offerId], r.vendorId)]_vars

\* C4: every committed write of a party action or of resolve that changes the
\* status takes the offer from the status stored immediately before the write
\* to a successor the transition table allows for that action.
C4_WritesFollowTable ==
    [][\A r \in InFlight :
          (/\ r.op \in {"send", "cancel", "accept", "reject", "fulfill", "dispute", "resolve"}
           /\ UpdateWrite(r)
           /\ offers'[r.offerId].status # offers[r.offerId].status)
          => <<offers[r.offerId].status, offers'[r.offerId].status>> \in TableMoves(r.op)]_vars

\* C5: whenever a counter-offer is committed, the predecessor's stored status
\* at the commit is SENT or COUNTERED and becomes COUNTERED in that commit.
C5_CounterFromSentOrCountered ==
    [][\A r \in InFlight :
          (CounterOfferWrite(r) /\ ~r.throws)
          => <<offers[r.offerId].status, offers'[r.offerId].status>> \in TableMoves("counter")]_vars


\* C6: an attempt whose (status, action, actor) is not a row of the transition
\* table is rejected with an error, for every action of a vendor, for resolve
\* and for any other status-changing operation (the admin status route, which
\* has no row), and it is rejected again when repeated.
C6_IllegalAttemptsRejected ==
    \A o \in DOMAIN offers :
        LET offer == offers[o]
            legal(action, v) == offer.status \in TableFrom(action, RoleOf(offer, v))
        IN  /\ \A v \in VendorIds :
                /\ \A body \in UpdateBodies :
                      ~legal("update", v) => UpdateOfferCheck(v, o, body) # Ok
                /\ ~legal("send", v) => SendOfferCheck(v, o) # Ok
                /\ ~legal("accept", v) => AcceptOfferCheck(v, o) # Ok
                /\ ~legal("reject", v) => RejectOfferCheck(v, o) # Ok
                /\ \A body \in CounterBodies :
                      ~legal("counter", v) => CounterOfferCheck(v, o, body) # Ok
                /\ ~legal("cancel", v) => CancelOfferCheck(v, o) # Ok
                /\ (~legal("fulfill", v) \/ OwnFlag(offer, v)) => FulfillOfferCheck(v, o) # Ok
                /\ \A reason \in Reasons :
                      ~legal("dispute", v) => DisputeOfferCheck(v, o, reason) # Ok
            /\ \A resolution \in Resolutions, st \in {"COMPLETED", "CANCELLED"} :
                  offer.status \notin TableFrom("resolve", "arbiter")
                  => ResolveDisputeCheck(o, resolution, st) # Ok
            /\ \A st \in Statuses : AdminUpdateStatusCheck(o, st) # Ok

Terminal == {"REJECTED", "CANCELLED", "COMPLETED"}

\* C7: REJECTED, CANCELLED and COMPLETED are absorbing: no operation of the
\* vendor or admin routes changes the status of an offer that has one of them.
C7_TerminalAbsorbing ==
    [][\A o \in DOMAIN offers :
          offers[o].status \in Terminal => offers'[o].status = offers[o].status]_vars

\* C8: an offer whose status is COUNTERED because a counter-offer superseded
\* it keeps that status whatever action (accept, reject, counter or any other)
\* follows.
C8_CounteredTerminal ==
    [][\A o \in DOMAIN offers :
          (/\ offers[o].status = "COUNTERED"
           /\ \E c \in DOMAIN offers : offers[c].parentOfferId = o)
          => offers'[o].status = "COUNTERED"]_vars

\* C9: the status of a DISPUTED offer is changed only by the write of the
\* arbiter's resolve, and then to COMPLETED or CANCELLED.
C9_OnlyResolveLeavesDisputed ==
    [][\A o \in DOMAIN offers :
          (offers[o].status = "DISPUTED" /\ offers'[o].status # "DISPUTED")
          => /\ \E r \in InFlight : r.offerId = o /\ ResolveDisputeWrite(r)
             /\ offers'[o].status \in {"COMPLETED", "CANCELLED"}]_vars

\* C10: every stored item with isOffered true is a product of the offer's
\* initiator and every stored item with isOffered false is a product of the
\* offer's recipient.
C10_ItemOwnership ==
    \A o \in DOMAIN offers :
        \A i \in 1..Len(items[o]) :
            LET item == items[o][i]
            IN  products[item.productId].vendorId =
                    IF item.isOffered THEN offers[o].initiatorVendorId
                                      ELSE offers[o].recipientVendorId

\* C11: for every stored offer, cashGapDirection is non-null if and only if
\* cashGapCents is greater than 0.
C11_CashGapDirectionIff ==
    \A o \in DOMAIN offers :
        (offers[o].cashGapDirection # NULL) <=> (offers[o].cashGapCents > 0)

\* both parties of an offer can fulfill it and neither has yet
BothCanFulfill(o) ==
    /\ offers[o].status = "ACCEPTED"
    /\ ~offers[o].fulfilledByInitiator /\ ~offers[o].fulfilledByRecipient
    /\ FulfillOfferCheck(offers[o].initiatorVendorId, o) = Ok
    /\ FulfillOfferCheck(offers[o].recipientVendorId, o) = Ok

\* C12: from an offer in ACCEPTED with both flags false, the sequential run
\* initiator-fulfill then recipient-fulfill and the run recipient-fulfill then
\* initiator-fulfill both succeed at each step and end in the same row, with
\* status COMPLETED and both flags true.
C12_FulfillOrderCommutes ==
    \A o \in DOMAIN offers :
        (/\ offers[o].status = "ACCEPTED"
         /\ ~offers[o].fulfilledByInitiator /\ ~offers[o].fulfilledByRecipient)
        => LET i == offers[o].initiatorVendorId
               r == offers[o].recipientVendorId
               afterI == FulfillAlone(offers[o], i)
               afterR == FulfillAlone(offers[o], r)
               ir == FulfillAlone(afterI, r)
               ri == FulfillAlone(afterR, i)
           IN  /\ FulfillRowCheck(offers[o], i) = Ok /\ FulfillRowCheck(afterI, r) = Ok
               /\ FulfillRowCheck(offers[o], r) = Ok /\ FulfillRowCheck(afterR, i) = Ok
               /\ ir = ri
               /\ ir.status = "COMPLETED"
               /\ ir.fulfilledByInitiator /\ ir.fulfilledByRecipient

\* C12 witness: an offer in ACCEPTED with both flags false that both parties
\* are able to fulfill.
C12_Witness == \E o \in DOMAIN offers : BothCanFulfill(o)

\* C13: when a party whose fulfill succeeds calls fulfill again in sequence,
\* the second call is rejected (as already marked while the offer is not yet
\* COMPLETED) and leaves the row as the first call left it; the first call
\* gives IN_PROGRESS, never COMPLETED, unless the other party's flag was
\* already set.
C13_DoubleFulfillGuard ==
    \A o \in DOMAIN offers : \A v \in VendorIds :
        FulfillOfferCheck(v, o) = Ok
        => LET after == FulfillAlone(offers[o], v)
               otherFlag == IF offers[o].initiatorVendorId = v
                            THEN offers[o].fulfilledByRecipient
                            ELSE offers[o].fulfilledByInitiator
           IN  /\ OwnFlag(after, v)
               /\ FulfillRowCheck(after, v).code = 400
               /\ after.status # "COMPLETED"
                  => FulfillRowCheck(after, v) =
                        Response(400, "You have already marked your side as fulfilled")
               /\ FulfillAlone(after, v) = after
               /\ ~otherFlag => after.status = "IN_PROGRESS"

\* C13 witness: an offer in IN_PROGRESS on which exactly one party has set its
\* flag, so that its second call is the rejected one.
C13_Witness ==
    \E o \in DOMAIN offers :
        /\ offers[o].status = "IN_PROGRESS"
        /\ offers[o].fulfilledByInitiator /\ ~offers[o].fulfilledByRecipient
        /\ FulfillOfferCheck(offers[o].initiatorVendorId, o) =
               Response(400, "You have already marked your side as fulfilled")
        /\ reqs = EmptyBag

\* the decision function of the specification (section 4.2): set the party's
\* flag; COMPLETED if the other party's flag is already true, IN_PROGRESS if
\* the prior status was ACCEPTED, otherwise the status is unchanged
ReferenceFulfill(offer, vendorId) ==
    LET isInitiator == offer.initiatorVendorId = vendorId
        otherFlag == IF isInitiator THEN offer.fulfilledByRecipient
                                    ELSE offer.fulfilledByInitiator
        status == IF otherFlag THEN "COMPLETED"
                  ELSE IF offer.status = "ACCEPTED" THEN "IN_PROGRESS"
                  ELSE offer.status
    IN  [offer EXCEPT !.status = status,
                      !.fulfilledByInitiator = IF isInitiator THEN TRUE ELSE @,
                      !.fulfilledByRecipient = IF isInitiator THEN @ ELSE TRUE]

\* C14: a successful fulfill by a party computes, from the row it read, the
\* row of the reference decision function (own flag set, status COMPLETED /
\* IN_PROGRESS / unchanged, every other field as it was), and its write
\* changes no column but the party's flag and the status.
C14_FulfillMatchesReference ==
    /\ [](\A o \in DOMAIN offers : \A v \in VendorIds :
            FulfillOfferCheck(v, o) = Ok
            => FulfillAlone(offers[o], v) = ReferenceFulfill(offers[o], v))
    /\ [][\A r \in InFlight :
            FulfillOfferWrite(r)
            => LET own == IF offers[r.offerId].initiatorVendorId = r.vendorId
                          THEN "fulfilledByInitiator" ELSE "fulfilledByRecipient"
               IN  /\ offers'[r.offerId][own]
                   /\ \A f \in DOMAIN offers[r.offerId] \ {own, "status"} :
                          offers'[r.offerId][f] = offers[r.offerId][f]
                   /\ items' = items]_vars

\* C14 witness: the recipient's fulfill has moved an ACCEPTED offer to
\* IN_PROGRESS with only the recipient's flag set, and the initiator's
\* fulfill is able to complete it.
C14_Witness ==
    \E o \in DOMAIN offers :
        /\ offers[o].status = "IN_PROGRESS"
        /\ offers[o].fulfilledByRecipient /\ ~offers[o].fulfilledByInitiator
        /\ FulfillOfferCheck(offers[o].initiatorVendorId, o) = Ok
        /\ ReferenceFulfill(offers[o], offers[o].initiatorVendorId).status = "COMPLETED"

\* C15: the fulfilled flags of an offer start false and, once true, no
\* operation writes them back to false.
C15_FlagsMonotonic ==
    [][/\ \A o \in DOMAIN offers :
             /\ offers[o].fulfilledByInitiator => offers'[o].fulfilledByInitiator
             /\ offers[o].fulfilledByRecipient => offers'[o].fulfilledByRecipient
       /\ \A o \in DOMAIN offers' \ DOMAIN offers :
             ~offers'[o].fulfilledByInitiator /\ ~offers'[o].fulfilledByRecipient]_vars

\* C15 witness: a dispute has been raised on an offer whose initiator flag
\* is true, and the flag is still true.
C15_Witness ==
    \E o \in DOMAIN offers :
        /\ offers[o].fulfilledByInitiator
        /\ offers[o].status = "DISPUTED"
        /\ offers[o].disputeReason # NULL

\* C16: a successful counter on predecessor P by P's recipient creates a new
\* offer N in SENT with parentOfferId P and the roles of P swapped, and leaves
\* P in COUNTERED; after it, P's original initiator and no other vendor passes
\* the checks of accept, reject and counter on N.
C16_CounterSwapsRoles ==
    [][\A r \in InFlight : \A p, n \in OfferIds :
          (CounterOfferWrite(r) /\ ~r.throws /\ p = r.offerId /\ n = Len(offers) + 1)
          => /\ r.vendorId = offers[p].recipientVendorId
             /\ DOMAIN offers' = 1..n
             /\ offers'[n].status = "SENT"
             /\ offers'[n].parentOfferId = p
             /\ offers'[n].initiatorVendorId = offers[p].recipientVendorId
             /\ offers'[n].recipientVendorId = offers[p].initiatorVendorId
             /\ offers'[p].status = "COUNTERED"
             /\ \A v \in VendorIds :
                   /\ (AcceptOfferCheck(v, n) = Ok)' <=> (v = offers[p].initiatorVendorId)
                   /\ (RejectOfferCheck(v, n) = Ok)' <=> (v = offers[p].initiatorVendorId)
                   /\ \A body \in {b \in CounterBodies : ItemsValid(b.items)} :
                         (CounterOfferCheck(v, n, body) = Ok)'
                         <=> (v = offers[p].initiatorVendorId)]_vars

\* C16 witness: a counter-offer N in SENT whose parent P is COUNTERED, with
\* the roles of P swapped, which P's initiator is able to accept.
C16_Witness ==
    \E p, n \in DOMAIN offers :
        /\ offers[n].parentOfferId = p
        /\ offers[n].status = "SENT"
        /\ offers[p].status = "COUNTERED"
        /\ offers[n].initiatorVendorId = offers[p].recipientVendorId
        /\ offers[n].recipientVendorId = offers[p].initiatorVendorId
        /\ AcceptOfferCheck(offers[p].initiatorVendorId, n) = Ok

\* C17: the transaction of a counter is all-or-nothing: its step either sets
\* the predecessor to COUNTERED and inserts the child offer with all its items,
\* or, when the creation of the child fails (an item references a product that
\* does not exist), leaves the offers and the items as they were; and a child
\* offer never appears without its items and its predecessor in COUNTERED.
C17_CounterAllOrNothing ==
    [][/\ \A r \in InFlight :
             CounterOfferWrite(r)
             => \/ /\ ~r.throws
                   /\ offers'[r.offerId].status = "COUNTERED"
                   /\ Len(offers') = Len(offers) + 1
                   /\ offers'[Len(offers')].parentOfferId = r.offerId
                   /\ Len(items') = Len(offers')
                   /\ items'[Len(items')] = r.rows
                   /\ Len(r.rows) >= 1
                \/ /\ r.throws
                   /\ offers' = offers
                   /\ items' = items
       /\ \A n \in DOMAIN offers' \ DOMAIN offers :
             offers'[n].parentOfferId # 0
             => /\ offers'[offers'[n].parentOfferId].status = "COUNTERED"
                /\ n \in DOMAIN items' /\ Len(items'[n]) >= 1]_vars

\* C17 witness: a counter whose items reference an unknown product has passed
\* the checks on a SENT predecessor and its transaction is about to fail.
C17_Witness ==
    \E r \in InFlight :
        /\ r.op = "counter" /\ r.throws
        /\ offers[r.offerId].status = "SENT"

\* the checks of the initiator-only and recipient-only actions answer 403 to
\* every other vendor, whatever the status of the offer and the body
RoleActionsForbidden(o, v) ==
    /\ offers[o].initiatorVendorId # v
       => /\ \A body \in UpdateBodies : UpdateOfferCheck(v, o, body).code = 403
          /\ SendOfferCheck(v, o).code = 403
          /\ CancelOfferCheck(v, o).code = 403
    /\ offers[o].recipientVendorId # v
       => /\ AcceptOfferCheck(v, o).code = 403
          /\ RejectOfferCheck(v, o).code = 403
          /\ \A body \in CounterBodies : CounterOfferCheck(v, o, body).code = 403

\* C18 (as stated): update, send and cancel by a vendor other than the
\* initiator, accept, reject and counter by a vendor other than the recipient,
\* and fulfill and dispute by a vendor that is no party, are rejected as
\* unauthorized (403) whatever the status and the request body.
C18_AlwaysUnauthorized ==
    \A o \in DOMAIN offers : \A v \in VendorIds :
        /\ RoleActionsForbidden(o, v)
        /\ RoleOf(offers[o], v) = "other"
           => /\ FulfillOfferCheck(v, o).code = 403
              /\ \A reason \in Reasons : DisputeOfferCheck(v, o, reason).code = 403

\* C18 (amended): the same attempts are all rejected and change nothing; the
\* rejection is 403 unauthorized, except that a dispute whose body is invalid
\* (empty reason) is rejected with 400 Invalid input, the body being parsed
\* before the offer is read.
C18_UnauthorizedRejected ==
    /\ [](\A o \in DOMAIN offers : \A v \in VendorIds :
            /\ RoleActionsForbidden(o, v)
            /\ RoleOf(offers[o], v) = "other"
               => /\ FulfillOfferCheck(v, o).code = 403
                  /\ \A reason \in Reasons :
                        DisputeOfferCheck(v, o, reason).code =
                            IF Len(reason) >= 1 THEN 403 ELSE 400)
    /\ [][\A o \in DOMAIN offers : \A v \in VendorIds :
            /\ offers[o].initiatorVendorId # v
               => ~(\/ \E body \in UpdateBodies : UpdateOffer(v, o, body)
                    \/ SendOffer(v, o)
                    \/ CancelOffer(v, o))
            /\ offers[o].recipientVendorId # v
               => ~(\/ AcceptOffer(v, o)
                    \/ RejectOffer(v, o)
                    \/ \E body \in CounterBodies : CounterOffer(v, o, body))
            /\ RoleOf(offers[o], v) = "other"
               => ~(\/ FulfillOffer(v, o)
                    \/ \E reason \in Reasons : DisputeOffer(v, o, reason))]_vars

\* C18 witness: an ACCEPTED offer and a vendor that is no party to it, whose
\* fulfill and dispute are answered 403 and whose dispute without a reason is
\* answered 400.
C18_Witness ==
    \E o \in DOMAIN offers : \E v \in VendorIds :
        /\ offers[o].status = "ACCEPTED"
        /\ RoleOf(offers[o], v) = "other"
        /\ FulfillOfferCheck(v, o).code = 403
        /\ DisputeOfferCheck(v, o, "goods not received").code = 403
        /\ DisputeOfferCheck(v, o, "").code = 400

\* C19: once the status of an offer is anything other than DRAFT, its items,
\* cashGapCents, cashGapDirection and message never change again.
C19_ImmutableAfterDraft ==
    [][\A o \in DOMAIN offers :
          offers[o].status # "DRAFT"
          => /\ items'[o] = items[o]
             /\ offers'[o].cashGapCents = offers[o].cashGapCents
             /\ offers'[o].cashGapDirection = offers[o].cashGapDirection
             /\ offers'[o].message = offers[o].message]_vars

\* C20: no create, update or counter persists an item whose product does not
\* exist, is soft-deleted or is marked unavailable (the catalog of the model
\* never changes, so a stored item of such a product was accepted as such).
C20_ProductsValidated ==
    \A o \in DOMAIN items :
        \A i \in 1..Len(items[o]) :
            /\ items[o][i].productId \in DOMAIN products
            /\ ~products[items[o][i].productId].isDeleted
            /\ products[items[o][i].productId].isAvailable

\* C22: resolve passes its checks if and only if the stored status is
\* DISPUTED, and every resolve that succeeds finds DISPUTED stored, sets the
\* status to the requested COMPLETED or CANCELLED and records non-null
\* disputeResolvedBy and disputeResolution.
C22_ResolveOnlyDisputed ==
    /\ [](\A o \in DOMAIN offers :
            \A resolution \in Resolutions \ {""}, st \in {"COMPLETED", "CANCELLED"} :
                (ResolveDisputeCheck(o, resolution, st) = Ok)
                <=> (offers[o].status = "DISPUTED"))
    /\ [][\A r \in InFlight :
            ResolveDisputeWrite(r)
            => /\ offers[r.offerId].status = "DISPUTED"
               /\ offers'[r.offerId].status = r.data.status
               /\ r.data.status \in {"COMPLETED", "CANCELLED"}
               /\ offers'[r.offerId].disputeResolvedBy # NULL
               /\ offers'[r.offerId].disputeResolution # NULL]_vars

\* C23: dispute by a party passes its checks exactly when the status is
\* ACCEPTED or IN_PROGRESS, and every dispute that succeeds finds one of them
\* stored, sets DISPUTED and the given non-empty reason and keeps both
\* fulfilled flags.
C23_DisputeOnlyActive ==
    /\ [](\A o \in DOMAIN offers : \A v \in VendorIds : \A reason \in Reasons \ {""} :
            RoleOf(offers[o], v) # "other"
            => ((DisputeOfferCheck(v, o, reason) = Ok)
                <=> (offers[o].status \in {"ACCEPTED", "IN_PROGRESS"})))
    /\ [][\A r \in InFlight :
            DisputeOfferWrite(r)
            => /\ offers[r.offerId].status \in {"ACCEPTED", "IN_PROGRESS"}
               /\ offers'[r.offerId].status = "DISPUTED"
               /\ offers'[r.offerId].disputeReason = r.data.disputeReason
               /\ Len(r.data.disputeReason) >= 1
               /\ offers'[r.offerId].fulfilledByInitiator = offers[r.offerId].fulfilledByInitiator
               /\ offers'[r.offerId].fulfilledByRecipient = offers[r.offerId].fulfilledByRecipient]_vars

\* C24: an offer whose status is DISPUTED has a non-null disputeReason and
\* null disputeResolvedBy and disputeResolution; disputeResolvedBy and
\* disputeResolution are set or null together, and only with a disputeReason.
C24_DisputeFields ==
    \A o \in DOMAIN offers :
        /\ offers[o].status = "DISPUTED"
           => /\ offers[o].disputeReason # NULL
              /\ offers[o].disputeResolvedBy = NULL
              /\ offers[o].disputeResolution = NULL
        /\ (offers[o].disputeResolvedBy = NULL) <=> (offers[o].disputeResolution = NULL)
        /\ offers[o].disputeResolvedBy # NULL => offers[o].disputeReason # NULL

\* the moves of the transition table that change the status
TableEdges ==
    {e \in UNION {TableMoves(a) : a \in {"send", "cancel", "accept", "reject", "counter",
                                        "fulfill", "dispute", "resolve"}} : e[1] # e[2]}

RECURSIVE TableClosure(_, _)
TableClosure(S, n) ==
    IF n = 0 THEN S
    ELSE TableClosure(S \cup {e[2] : e \in {x \in TableEdges : x[1] \in S}}, n - 1)

\* the statuses that lie ahead of a status along the transition table
Later(status) ==
    TableClosure({e[2] : e \in {x \in TableEdges : x[1] = status}}, Cardinality(Statuses))

\* C25: the status of an offer only moves forward along the transition table:
\* every change of status leads to a status that lies ahead of the old one
\* (the table has no cycle, so no status that was left is entered again).
C25_StatusMovesForward ==
    [][\A o \in DOMAIN offers :
          offers'[o].status # offers[o].status
          => offers'[o].status \in Later(offers[o].status)]_vars

\* C26: every stored offer has initiatorVendorId different from
\* recipientVendorId, and a create whose recipient is the caller is rejected.
C26_InitiatorNotRecipient ==
    /\ \A o \in DOMAIN offers : offers[o].initiatorVendorId # offers[o].recipientVendorId
    /\ \A v \in Creators : \A body \in CreateBodies :
          body.recipientVendorId = v => CreateOfferCheck(v, body) # Ok

\* C26 witness: an offer and a counter-offer to it are stored, the roles of
\* the counter-offer being those of the offer swapped.
C26_Witness ==
    \E p, n \in DOMAIN offers :
        /\ offers[n].parentOfferId = p
        /\ offers[n].initiatorVendorId = offers[p].recipientVendorId
        /\ offers[n].recipientVendorId = offers[p].initiatorVendorId
        /\ offers[p].initiatorVendorId # offers[p].recipientVendorId

\* C27: every offer whose status is not DRAFT has at least one item (a
\* counter-offer, created in SENT, included), and send on a DRAFT read with
\* zero items is rejected.
C27_NonDraftHasItems ==
    \A o \in DOMAIN offers :
        /\ offers[o].status # "DRAFT" => Len(items[o]) >= 1
        /\ SendRowCheck([offers[o] EXCEPT !.status = "DRAFT"], <<>>,
                        offers[o].initiatorVendorId)
              = Response(400, "Cannot send an empty offer")

\* C27 witness: a counter-offer in SENT and its predecessor, each with an item.
C27_Witness ==
    \E p, n \in DOMAIN offers :
        /\ offers[n].parentOfferId = p
        /\ offers[n].status = "SENT" /\ Len(items[n]) >= 1
        /\ offers[p].status # "DRAFT" /\ Len(items[p]) >= 1

\* C28: a successful counter changes nothing of the predecessor but its
\* status: its items and every other column are the same before and after.
C28_CounterFrame ==
    [][\A r \in InFlight :
          (CounterOfferWrite(r) /\ ~r.throws)
          => /\ items'[r.offerId] = items[r.offerId]
             /\ \A f \in DOMAIN offers[r.offerId] \ {"status"} :
                   offers'[r.offerId][f] = offers[r.offerId][f]
             /\ \A o \in DOMAIN offers \ {r.offerId} :
                   offers'[o] = offers[o] /\ items'[o] = items[o]]_vars

\* C28 witness: a predecessor in COUNTERED that keeps its item, and its
\* counter-offer with an item of its own.
C28_Witness ==
    \E p, n \in DOMAIN offers :
        /\ offers[n].parentOfferId = p
        /\ offers[p].status = "COUNTERED"
        /\ Len(items[p]) = 1 /\ Len(items[n]) = 1
        /\ items[p][1].productId = "p1"
        /\ items[n][1].productId = "p2"

----------------------------------------------------------------------------
(* Catalog prices, reads and the projection (CatalogSpec) *)

\* the offered and the requested total a party is shown for offer o
ProjectedTotals(o) ==
    LET t == TransformOffer(GetOfferWithDetails(o), offers[o].initiatorVendorId)
    IN  <<t.offeredTotalCents, t.requestedTotalCents>>

\* a change of the catalog leaves every stored item, and the totals projected
\* from the items, as they were
PriceChangeFrame ==
    [][products' # products =>
          /\ items' = items
          /\ offers' = offers
          /\ \A o \in DOMAIN offers : ProjectedTotals(o)' = ProjectedTotals(o)]_vars

\* C21: an item's valueCents is the unit price its product has at the moment
\* the item is created, and a later change of the catalog price changes
\* neither the valueCents of an existing item nor the totals projected from
\* the items.
C21_ValueCentsFrozen ==
    [][/\ \A o \in OfferIds :
             (o \in DOMAIN items' /\ (o \notin DOMAIN items \/ items'[o] # items[o])) =>
                \A i \in 1..Len(items'[o]) :
                   items'[o][i].valueCents = products[items'[o][i].productId].priceUsdCents
       /\ products' # products =>
             /\ items' = items
             /\ \A o \in DOMAIN offers : ProjectedTotals(o)' = ProjectedTotals(o)]_vars

\* C29: every read operation (the vendor's list and detail, the admin's list,
\* detail and statistics) leaves every offer and every item unchanged,
\* whatever the statuses of the offers and whoever the viewer is.
C29_ReadsChangeNothing ==
    [][\/ UNCHANGED <<offers, items>>
       \/ ~(\/ \E v \in VendorIds, st \in Statuses \cup {NULL},
                  type \in {NULL, "sent", "received"} : GetOffers(v, st, type)
            \/ \E v \in VendorIds, o \in OfferIds : GetOffer(v, o)
            \/ \E a \in AdminIds, st \in Statuses \cup {NULL}, v \in VendorIds \cup {NULL} :
                  AdminGetOffers(a, st, v)
            \/ \E a \in AdminIds : AdminGetStats(a)
            \/ \E a \in AdminIds, o \in OfferIds : AdminGetOffer(a, o))]_vars

\* C29 witness: the recipient has read the details of an accepted offer of
\* two items, and the offer and its items are stored as they were.
C29_Witness ==
    /\ view.op = "GetOffer" /\ view.code = 200
    /\ view.body.viewer = "v2"
    /\ view.body.offer.status = "ACCEPTED"
    /\ offers[view.body.offer.id].status = "ACCEPTED"
    /\ Len(items[view.body.offer.id]) = 2

\* the sum of valueCents * quantity over the items of rows at the indices I
RECURSIVE BundleValue(_, _)
BundleValue(rows, I) ==
    IF I = {} THEN 0
    ELSE LET i == CHOOSE j \in I : TRUE
         IN  rows[i].valueCents * rows[i].quantity + BundleValue(rows, I \ {i})

\* the projection t of the stored offer o for the viewer v is as C30 states
ProjectionCorrect(t, o, v) ==
    LET rows == items[o] IN
    /\ t.offeredTotalCents = BundleValue(rows, {i \in 1..Len(rows) : rows[i].isOffered})
    /\ t.requestedTotalCents = BundleValue(rows, {i \in 1..Len(rows) : ~rows[i].isOffered})
    /\ Len(t.offeredItems) = Cardinality({i \in 1..Len(rows) : rows[i].isOffered})
    /\ Len(t.requestedItems) = Cardinality({i \in 1..Len(rows) : ~rows[i].isOffered})
    /\ \A i \in 1..Len(t.offeredItems) :
          t.offeredItems[i].totalCents = t.offeredItems[i].valueCents * t.offeredItems[i].quantity
    /\ \A i \in 1..Len(t.requestedItems) :
          t.requestedItems[i].totalCents =
             t.requestedItems[i].valueCents * t.requestedItems[i].quantity
    /\ t.isInitiator <=> (v = offers[o].initiatorVendorId)
    /\ t.cashGapCents = offers[o].cashGapCents

\* C30: for every offer and every viewer the projection has offeredTotalCents
\* equal to the sum of valueCents * quantity over the offered items,
\* requestedTotalCents equal to that sum over the requested items, every
\* item's totalCents equal to valueCents * quantity, and isInitiator true
\* exactly for the initiator; cashGapCents is in neither total.  It holds of
\* the projection of every stored offer and of every new answer of the detail
\* read.
C30_ProjectionTotals ==
    /\ [](\A o \in DOMAIN offers, v \in VendorIds :
             ProjectionCorrect(TransformOffer(GetOfferWithDetails(o), v), o, v))
    /\ [][(view' # view /\ view'.op = "GetOffer" /\ view'.code = 200) =>
             \A v \in VendorIds, o \in OfferIds :
                GetOffer(v, o) => ProjectionCorrect(view'.body.offer, o, v)]_vars

\* C30 witness: the recipient is shown the offer of scenario A with two units
\* offered: totals 2000 and 1500, a cash gap of 500, not the initiator.
C30_Witness ==
    /\ view.op = "GetOffer" /\ view.code = 200
    /\ view.body.viewer = "v2"
    /\ view.body.offer.offeredTotalCents = 2000
    /\ view.body.offer.requestedTotalCents = 1500
    /\ view.body.offer.cashGapCents = 500
    /\ ~view.body.offer.isInitiator
    /\ view.body.offer.offeredItems[1].totalCents = 2000

----------------------------------------------------------------------------
(* Error values, atomicity of the update, lineage (C31..C38) *)

\* the messages of the rejections for an action that is not valid from the
\* status (or the fulfilled flag) of the offer the handler read
StateErrors ==
    {"Only draft offers can be updated", "Only draft offers can be sent",
     "This offer cannot be accepted", "This offer cannot be rejected",
     "This offer cannot be countered", "This offer cannot be cancelled",
     "Only accepted or in-progress offers can be fulfilled",
     "You have already marked your side as fulfilled",
     "Only accepted or in-progress offers can be disputed",
     "Only disputed offers can be resolved"}

\* the answers the handlers give on the stored offer o to the caller v
AnswersOn(v, o) ==
    {AcceptOfferCheck(v, o), RejectOfferCheck(v, o), CancelOfferCheck(v, o),
     SendOfferCheck(v, o), FulfillOfferCheck(v, o)}
    \cup {UpdateOfferCheck(v, o, body) : body \in UpdateBodies}
    \cup {CounterOfferCheck(v, o, body) : body \in CounterBodies}
    \cup {DisputeOfferCheck(v, o, reason) : reason \in Reasons}
    \cup {ResolveDisputeCheck(o, resolution, st) :
             resolution \in Resolutions, st \in {"COMPLETED", "CANCELLED"}}

\* C31: every rejection for a state error (the action is not valid from the
\* offer's current status, or the caller fulfils twice) returns an error value
\* that carries the status the offer is stored with.
C31_StateErrorCarriesStatus ==
    \A o \in DOMAIN offers, v \in VendorIds :
       \A r \in AnswersOn(v, o) :
          r.message \in StateErrors =>
             "status" \in DOMAIN r /\ r.status = offers[o].status

\* C32: an update of a DRAFT that supplies new items and new cash-gap terms
\* is applied atomically: the step that replaces the items also writes the
\* terms, so no request reads or acts on an offer whose items are replaced
\* while cashGapCents and cashGapDirection are still the old ones.
C32_UpdateAtomic ==
    [][\A r \in InFlight :
          (UpdateOfferItemsWrite(r) /\ DOMAIN r.data # {}) =>
             \A f \in DOMAIN r.data : offers'[r.offerId][f] = r.data[f]]_vars

\* the counter-offers that name the offer p as their predecessor
CounterOffersOf(p) == {c \in DOMAIN offers : offers[c].parentOfferId = p}

\* C33: every offer has at most one counter-offer naming it as parentOfferId
\* (the offers of a negotiation form a linear chain), also after a counter on
\* an offer that is already COUNTERED and after two concurrent counters on
\* the same SENT offer.
C33_LinearChain ==
    \A p \in DOMAIN offers : Cardinality(CounterOffersOf(p)) <= 1

\* C34: an offer in ACCEPTED has both fulfilled flags false, an offer in
\* IN_PROGRESS has exactly one fulfilled flag true, and an offer with both
\* flags true is in neither ACCEPTED nor IN_PROGRESS.
C34_FlagsMatchStatus ==
    \A o \in DOMAIN offers :
       /\ offers[o].status = "ACCEPTED" =>
             ~offers[o].fulfilledByInitiator /\ ~offers[o].fulfilledByRecipient
       /\ offers[o].status = "IN_PROGRESS" =>
             offers[o].fulfilledByInitiator # offers[o].fulfilledByRecipient
       /\ (offers[o].fulfilledByInitiator /\ offers[o].fulfilledByRecipient) =>
             offers[o].status \notin {"ACCEPTED", "IN_PROGRESS"}

\* C35: an offer in COMPLETED has both fulfilled flags true or a non-null
\* disputeResolvedBy, and the write of a resolve to COMPLETED leaves both
\* fulfilled flags as they are.
C35_CompletedIsJustified ==
    /\ [](\A o \in DOMAIN offers :
             offers[o].status = "COMPLETED" =>
                \/ offers[o].fulfilledByInitiator /\ offers[o].fulfilledByRecipient
                \/ offers[o].disputeResolvedBy # NULL)
    /\ [][\A r \in InFlight :
             ResolveDisputeWrite(r) =>
                /\ offers'[r.offerId].fulfilledByInitiator = offers[r.offerId].fulfilledByInitiator
                /\ offers'[r.offerId].fulfilledByRecipient = offers[r.offerId].fulfilledByRecipient]_vars

\* C36: of an offer P and a counter-offer N to it, at most one is ACCEPTED,
\* in whatever order their recipients call accept.
C36_OneAcceptedPerNegotiation ==
    \A p \in DOMAIN offers : \A n \in CounterOffersOf(p) :
       ~(offers[p].status = "ACCEPTED" /\ offers[n].status = "ACCEPTED")

\* C37: initiatorVendorId, recipientVendorId and parentOfferId of an offer are
\* fixed at its creation: no step of any operation (update, send, accept,
\* reject, counter, cancel, fulfill, dispute, resolve, admin status change)
\* changes them, and no offer is removed.
C37_LineageFixed ==
    [][\A o \in DOMAIN offers :
          /\ o \in DOMAIN offers'
          /\ offers'[o].initiatorVendorId = offers[o].initiatorVendorId
          /\ offers'[o].recipientVendorId = offers[o].recipientVendorId
          /\ offers'[o].parentOfferId = offers[o].parentOfferId]_vars

\* C37 witness: a counter-offer that was accepted and whose predecessor was
\* countered still names its predecessor, with the roles it was created with.
C37_Witness ==
    \E p, n \in DOMAIN offers :
       /\ offers[n].parentOfferId = p
       /\ offers[n].status = "ACCEPTED"
       /\ offers[p].status = "COUNTERED"
       /\ offers[p].parentOfferId = 0
       /\ offers[n].initiatorVendorId = offers[p].recipientVendorId
       /\ offers[n].recipientVendorId = offers[p].initiatorVendorId

\* the offers the vendor v is a party to
OwnOffers(v) ==
    {o \in DOMAIN offers :
        offers[o].initiatorVendorId = v \/ offers[o].recipientVendorId = v}

\* the list of v holds exactly v's offers (those v initiated for type sent,
\* those v received for type received) that have the status asked for
ListIsOwn(v) ==
    \A st \in Statuses \cup {NULL} :
       /\ DOMAIN GetOffersResponse(v, st, NULL).body.offers =
             {o \in OwnOffers(v) : st # NULL => offers[o].status = st}
       /\ DOMAIN GetOffersResponse(v, st, "sent").body.offers =
             {o \in DOMAIN offers : /\ offers[o].initiatorVendorId = v
                                    /\ st # NULL => offers[o].status = st}
       /\ DOMAIN GetOffersResponse(v, st, "received").body.offers =
             {o \in DOMAIN offers : /\ offers[o].recipientVendorId = v
                                    /\ st # NULL => offers[o].status = st}

\* the detail read of an offer by a vendor that is not a party is rejected
GetIsOwn(v) ==
    \A o \in DOMAIN offers \ OwnOffers(v) : GetOfferResponse(v, o).code = 403

\* a step that leaves the catalog and every offer v is a party to as they are
\* (it differs only in offers of other vendors)
OnlyOthersChange(v) ==
    /\ products' = products
    /\ OwnOffers(v)' = OwnOffers(v)
    /\ \A o \in OwnOffers(v) : offers'[o] = offers[o] /\ items'[o] = items[o]

\* C38: a vendor's view depends only on the offers the vendor is a party to:
\* the list returns exactly those offers under every status and type filter,
\* the detail read by a non-party is rejected, and two store states that
\* differ only in offers of other vendors give the vendor the same list and
\* the same answer to every detail read.
C38_ViewDependsOnOwnOffers ==
    /\ [](\A v \in VendorIds : ListIsOwn(v) /\ GetIsOwn(v))
    /\ [][\A v \in VendorIds :
             OnlyOthersChange(v) =>
                /\ \A st \in Statuses \cup {NULL}, type \in {NULL, "sent", "received"} :
                      GetOffersResponse(v, st, type)' = GetOffersResponse(v, st, type)
                /\ \A o \in OfferIds :
                      GetOfferResponse(v, o)' = GetOfferResponse(v, o)]_vars

\* the parts of C38 that are about one store state
OwnViewOnly == \A v \in VendorIds : ListIsOwn(v) /\ GetIsOwn(v)

\* the list of a vendor is the same in two store states that differ only in
\* offers of other vendors
ListIgnoresOthers ==
    [][\A v \in VendorIds :
          (<<offers, items>>' # <<offers, items>> /\ OnlyOthersChange(v)) =>
             \A st \in {NULL, "SENT"}, type \in {NULL, "sent", "received"} :
                GetOffersResponse(v, st, type)' = GetOffersResponse(v, st, type)]_vars

====
